---- MODULE Spec2Model ----
(***************************************************************************)
(* Modular arithmetic circuits of quantum_modular_artihmetics.ipynb.       *)
(*                                                                         *)
(* A builder (add_in_k_N, add_in_N, ...) emits a sequence of gates; the    *)
(* variable tape holds the emitted sequence and the Step actions execute   *)
(* it gate by gate on the wires.  Every circuit of the notebook is started *)
(* on a computational basis state, so the state of the device is a bit per *)
(* wire, except for the wires of the register that is currently in the     *)
(* Fourier basis: QFT|v> is the product state whose wire of rank j (0 is   *)
(* the most significant wire) carries the relative phase 2 pi v / 2^(j+1), *)
(* and RZ(theta) adds theta to the relative phase of its wire.  The        *)
(* phases are kept as integers in units of 2 pi / 2^(width+1).  Global     *)
(* phases are dropped.  A gate whose control wires are not all 1 is the    *)
(* identity.  ok turns FALSE, and the run stops, when a gate would take    *)
(* the device out of these states (a CNOT on a wire in the Fourier basis,  *)
(* an inverse QFT of phases that are not those of a basis value).          *)
(***************************************************************************)
EXTENDS Integers, Sequences, FiniteSets, TLC

VARIABLES op, args, tape, pc, bits, fb, ph, ok

vars == <<op, args, tape, pc, bits, fb, ph, ok>>

\* Largest modulus explored.
MaxN == 7

\* Width of the data registers of the notebook's examples: list(range(0, 3)).
nBits == 3

\* Wires of the device: nWireCount = 11 in the largest examples.
nWireCount == 11

Wires == 0 .. (nWireCount - 1)

Moduli == {n \in 2 .. MaxN : n <= 2 ^ nBits}

Range(s) == {s[i] : i \in 1 .. Len(s)}

\* list(range(lo, hi))
WireRange(lo, hi) == [i \in 1 .. (hi - lo) |-> lo + i - 1]

(***************************************************************************)
(* Classical helpers.                                                      *)
(***************************************************************************)

\* Python's three-argument pow(b, e, n) for e >= 0, n >= 2.
RECURSIVE pow(_, _, _)
pow(b, e, n) == IF e = 0 THEN 1 % n ELSE ((b % n) * pow(b, e - 1, n)) % n

\* Greatest common divisor (Euclid), for m, n >= 0.
RECURSIVE GCD(_, _)
GCD(m, n) == IF n = 0 THEN m ELSE GCD(n, m % n)

\* Concatenation of a sequence of gate sequences: the gates emitted by the
\* passes of a for loop, in order.
RECURSIVE Flatten(_)
Flatten(ss) == IF ss = <<>> THEN <<>> ELSE ss[1] \o Flatten(Tail(ss))

\* binary_to_integer restricted to the wires ws of a sample, ws[1] first.
RECURSIVE BitsValue(_, _)
BitsValue(f, ws) ==
    IF ws = <<>> THEN 0
    ELSE f[ws[1]] * 2 ^ (Len(ws) - 1) + BitsValue(f, Tail(ws))

binary_to_integer(ws) == BitsValue(bits, ws)

\* qml.BasisEmbedding(v, wires=ws) applied to the bit assignment f.
BasisEmbedding(f, v, ws) ==
    [x \in Wires |->
        IF \E r \in 1 .. Len(ws) : ws[r] = x
        THEN LET r == CHOOSE r \in 1 .. Len(ws) : ws[r] = x
             IN  (v \div 2 ^ (Len(ws) - r)) % 2
        ELSE f[x]]

(***************************************************************************)
(* Gates.  c is the set of control wires added by qml.ctrl.                *)
(***************************************************************************)

\* qml.RZ(k * pi / 2**j, wires=w)
RZ(k, j, w) == [g |-> "RZ", ws |-> <<w>>, k |-> k, j |-> j, c |-> {}]

QFT(ws) == [g |-> "QFT", ws |-> ws, k |-> 0, j |-> 0, c |-> {}]

IQFT(ws) == [g |-> "IQFT", ws |-> ws, k |-> 0, j |-> 0, c |-> {}]

CNOT(cw, tw) == [g |-> "CNOT", ws |-> <<cw, tw>>, k |-> 0, j |-> 0, c |-> {}]

PauliX(w) == [g |-> "X", ws |-> <<w>>, k |-> 0, j |-> 0, c |-> {}]

SWAP(u, w) == [g |-> "SWAP", ws |-> <<u, w>>, k |-> 0, j |-> 0, c |-> {}]

\* Inverse of one gate.
Inv(gt) ==
    CASE gt.g = "RZ"   -> [gt EXCEPT !.k = 0 - gt.k]
      [] gt.g = "QFT"  -> [gt EXCEPT !.g = "IQFT"]
      [] gt.g = "IQFT" -> [gt EXCEPT !.g = "QFT"]
      [] OTHER         -> gt

\* qml.adjoint(fn)(...): the gates of fn in reverse order, each inverted.
adjoint(circ) == [i \in 1 .. Len(circ) |-> Inv(circ[Len(circ) + 1 - i])]

\* qml.ctrl(fn, control=cs)(...): every gate of fn gets the controls cs.
ctrl(circ, cs) == [i \in 1 .. Len(circ) |-> [circ[i] EXCEPT !.c = @ \cup cs]]

(***************************************************************************)
(* Builders.                                                               *)
(***************************************************************************)

sum_k(k, wires) == [i \in 1 .. Len(wires) |-> RZ(k, i - 1, wires[i])]

\* add_in_k_N whose two copies read the second wire of the register instead
\* of the first.
add_in_k_N_readsSecondWire(k, N, wires_a, wires_aux, is_in_standard_basis) ==
    (IF is_in_standard_basis THEN <<QFT(wires_a)>> ELSE <<>>)
    \o sum_k(k, wires_a)
    \o adjoint(sum_k(N, wires_a))
    \o <<IQFT(wires_a), CNOT(wires_a[2], wires_aux[1]), QFT(wires_a)>>
    \o ctrl(sum_k(N, wires_a), {wires_aux[1]})
    \o adjoint(sum_k(k, wires_a))
    \o <<IQFT(wires_a), PauliX(wires_a[2]), CNOT(wires_a[2], wires_aux[1]),
         PauliX(wires_a[2]), QFT(wires_a)>>
    \o sum_k(k, wires_a)
    \o (IF is_in_standard_basis THEN <<IQFT(wires_a)>> ELSE <<>>)

\* add_in_k_N without the second copy into the overflow wire (step 6).
add_in_k_N_noSecondCopy(k, N, wires_a, wires_aux, is_in_standard_basis) ==
    (IF is_in_standard_basis THEN <<QFT(wires_a)>> ELSE <<>>)
    \o sum_k(k, wires_a)
    \o adjoint(sum_k(N, wires_a))
    \o <<IQFT(wires_a), CNOT(wires_a[1], wires_aux[1]), QFT(wires_a)>>
    \o ctrl(sum_k(N, wires_a), {wires_aux[1]})
    \o adjoint(sum_k(k, wires_a))
    \o <<IQFT(wires_a), PauliX(wires_a[1]), PauliX(wires_a[1]), QFT(wires_a)>>
    \o sum_k(k, wires_a)
    \o (IF is_in_standard_basis THEN <<IQFT(wires_a)>> ELSE <<>>)

\* add_in_k_N without the conditional re-addition of N (step 4).
add_in_k_N_noReAdd(k, N, wires_a, wires_aux, is_in_standard_basis) ==
    (IF is_in_standard_basis THEN <<QFT(wires_a)>> ELSE <<>>)
    \o sum_k(k, wires_a)
    \o adjoint(sum_k(N, wires_a))
    \o <<IQFT(wires_a), CNOT(wires_a[1], wires_aux[1]), QFT(wires_a)>>
    \o adjoint(sum_k(k, wires_a))
    \o <<IQFT(wires_a), PauliX(wires_a[1]), CNOT(wires_a[1], wires_aux[1]),
         PauliX(wires_a[1]), QFT(wires_a)>>
    \o sum_k(k, wires_a)
    \o (IF is_in_standard_basis THEN <<IQFT(wires_a)>> ELSE <<>>)

\* add_in_k_N without the two PauliX around the second CNOT (step 6).
add_in_k_N_noFlip(k, N, wires_a, wires_aux, is_in_standard_basis) ==
    (IF is_in_standard_basis THEN <<QFT(wires_a)>> ELSE <<>>)
    \o sum_k(k, wires_a)
    \o adjoint(sum_k(N, wires_a))
    \o <<IQFT(wires_a), CNOT(wires_a[1], wires_aux[1]), QFT(wires_a)>>
    \o ctrl(sum_k(N, wires_a), {wires_aux[1]})
    \o adjoint(sum_k(k, wires_a))
    \o <<IQFT(wires_a), CNOT(wires_a[1], wires_aux[1]), QFT(wires_a)>>
    \o sum_k(k, wires_a)
    \o (IF is_in_standard_basis THEN <<IQFT(wires_a)>> ELSE <<>>)

add_in_k_N(k, N, wires_a, wires_aux, is_in_standard_basis) ==
    (IF is_in_standard_basis THEN <<QFT(wires_a)>> ELSE <<>>)
    \o sum_k(k, wires_a)
    \o adjoint(sum_k(N, wires_a))
    \o <<IQFT(wires_a), CNOT(wires_a[1], wires_aux[1]), QFT(wires_a)>>
    \o ctrl(sum_k(N, wires_a), {wires_aux[1]})
    \o adjoint(sum_k(k, wires_a))
    \o <<IQFT(wires_a), PauliX(wires_a[1]), CNOT(wires_a[1], wires_aux[1]),
         PauliX(wires_a[1]), QFT(wires_a)>>
    \o sum_k(k, wires_a)
    \o (IF is_in_standard_basis THEN <<IQFT(wires_a)>> ELSE <<>>)

add_out_k_N(k, N, wires_a, wires_res, wires_aux) ==
    IF Len(wires_aux) < 2 THEN <<>>
    ELSE [i \in 1 .. Len(wires_res) |-> CNOT(wires_a[i], wires_res[i])]
         \o add_in_k_N(k, N, <<wires_aux[1]>> \o wires_res, <<wires_aux[2]>>,
                       TRUE)

\* add_in_N that appends the support wire to wires_b instead of prefixing it.
add_in_N_auxAppended(N, wires_a, wires_b, aux1, aux2) ==
    LET new_wires_b == wires_b \o aux1
        n == Len(wires_a)
    IN  <<QFT(new_wires_b)>>
        \o Flatten([i \in 1 .. n |->
               ctrl(add_in_k_N((2 ^ (n - i)) % N, N, new_wires_b, aux2, FALSE),
                    {wires_a[i]})])
        \o <<IQFT(new_wires_b)>>

\* add_in_N with the weights taken in increasing order: wire i of wires_a
\* contributes 2^i instead of 2^(len-1-i).
add_in_N_weightsReversed(N, wires_a, wires_b, aux1, aux2) ==
    LET new_wires_b == aux1 \o wires_b
        n == Len(wires_a)
    IN  <<QFT(new_wires_b)>>
        \o Flatten([i \in 1 .. n |->
               ctrl(add_in_k_N((2 ^ (i - 1)) % N, N, new_wires_b, aux2, FALSE),
                    {wires_a[i]})])
        \o <<IQFT(new_wires_b)>>

add_in_N(N, wires_a, wires_b, aux1, aux2) ==
    LET new_wires_b == aux1 \o wires_b
        n == Len(wires_a)
    IN  <<QFT(new_wires_b)>>
        \o Flatten([i \in 1 .. n |->
               ctrl(add_in_k_N((2 ^ (n - i)) % N, N, new_wires_b, aux2, FALSE),
                    {wires_a[i]})])
        \o <<IQFT(new_wires_b)>>

\* add_out_N that copies wires_a, not wires_b, into wires_res.
add_out_N_copiesA(N, wires_a, wires_b, wires_res, aux1, aux2) ==
    [i \in 1 .. Len(wires_b) |-> CNOT(wires_a[i], wires_res[i])]
    \o add_in_N(N, wires_a, wires_res, aux1, aux2)

add_out_N(N, wires_a, wires_b, wires_res, aux1, aux2) ==
    [i \in 1 .. Len(wires_b) |-> CNOT(wires_b[i], wires_res[i])]
    \o add_in_N(N, wires_a, wires_res, aux1, aux2)

\* mult_out_k_N whose weights are not reduced modulo N.
mult_out_k_N_unreduced(k, N, wires_a, wires_b, wires_aux) ==
    IF Len(wires_aux) < 2 THEN <<>>
    ELSE LET new_wires_b == <<wires_aux[1]>> \o wires_b
             n == Len(wires_a)
         IN  <<QFT(new_wires_b)>>
             \o Flatten([i \in 1 .. n |->
                    ctrl(add_in_k_N(k * 2 ^ (n - i), N, new_wires_b,
                                    <<wires_aux[2]>>, FALSE),
                         {wires_a[i]})])
             \o <<IQFT(new_wires_b)>>

mult_out_k_N(k, N, wires_a, wires_b, wires_aux) ==
    IF Len(wires_aux) < 2 THEN <<>>
    ELSE LET new_wires_b == <<wires_aux[1]>> \o wires_b
             n == Len(wires_a)
         IN  <<QFT(new_wires_b)>>
             \o Flatten([i \in 1 .. n |->
                    ctrl(add_in_k_N((k * 2 ^ (n - i)) % N, N, new_wires_b,
                                    <<wires_aux[2]>>, FALSE),
                         {wires_a[i]})])
             \o <<IQFT(new_wires_b)>>

\* mult_in_k_N whose third step is the adjoint of mult_out_k_N(N - inv_k).
mult_in_k_N_adjointStep3(k, N, wires_a, wires_support, wires_aux) ==
    IF Len(wires_aux) < 2 \/ ~(Len(wires_a) = Len(wires_support)) THEN <<>>
    ELSE IF (pow(k, N - 2, N) * k) % N # 1 THEN <<>>
    ELSE LET inv_k == pow(k, N - 2, N)
         IN  mult_out_k_N(k, N, wires_a, wires_support, wires_aux)
             \o [i \in 1 .. Len(wires_a) |-> SWAP(wires_a[i], wires_support[i])]
             \o adjoint(mult_out_k_N(N - inv_k, N, wires_a, wires_support,
                                     wires_aux))

\* mult_in_k_N whose third step multiplies by k again.
mult_in_k_N_sameConstant(k, N, wires_a, wires_support, wires_aux) ==
    IF Len(wires_aux) < 2 \/ ~(Len(wires_a) = Len(wires_support)) THEN <<>>
    ELSE IF (pow(k, N - 2, N) * k) % N # 1 THEN <<>>
    ELSE LET inv_k == pow(k, N - 2, N)
         IN  mult_out_k_N(k, N, wires_a, wires_support, wires_aux)
             \o [i \in 1 .. Len(wires_a) |-> SWAP(wires_a[i], wires_support[i])]
             \o mult_out_k_N(k, N, wires_a, wires_support, wires_aux)

\* mult_in_k_N whose third step uses inv_k instead of N - inv_k.
mult_in_k_N_plusInverse(k, N, wires_a, wires_support, wires_aux) ==
    IF Len(wires_aux) < 2 \/ ~(Len(wires_a) = Len(wires_support)) THEN <<>>
    ELSE IF (pow(k, N - 2, N) * k) % N # 1 THEN <<>>
    ELSE LET inv_k == pow(k, N - 2, N)
         IN  mult_out_k_N(k, N, wires_a, wires_support, wires_aux)
             \o [i \in 1 .. Len(wires_a) |-> SWAP(wires_a[i], wires_support[i])]
             \o mult_out_k_N(inv_k, N, wires_a, wires_support, wires_aux)

\* mult_in_k_N without the test for the inverse of k.
mult_in_k_N_unchecked(k, N, wires_a, wires_support, wires_aux) ==
    IF Len(wires_aux) < 2 \/ ~(Len(wires_a) = Len(wires_support)) THEN <<>>
    ELSE LET inv_k == pow(k, N - 2, N)
         IN  mult_out_k_N(k, N, wires_a, wires_support, wires_aux)
             \o [i \in 1 .. Len(wires_a) |-> SWAP(wires_a[i], wires_support[i])]
             \o mult_out_k_N(N - inv_k, N, wires_a, wires_support, wires_aux)

mult_in_k_N(k, N, wires_a, wires_support, wires_aux) ==
    IF Len(wires_aux) < 2 \/ ~(Len(wires_a) = Len(wires_support)) THEN <<>>
    ELSE IF (pow(k, N - 2, N) * k) % N # 1 THEN <<>>
    ELSE LET inv_k == pow(k, N - 2, N)
         IN  mult_out_k_N(k, N, wires_a, wires_support, wires_aux)
             \o [i \in 1 .. Len(wires_a) |-> SWAP(wires_a[i], wires_support[i])]
             \o mult_out_k_N(N - inv_k, N, wires_a, wires_support, wires_aux)

\* mult_out_N whose additions are controlled on wires_a[i] alone.
mult_out_N_oneControl(N, wires_a, wires_b, wires_res, wires_aux) ==
    LET new_wires_res == <<wires_aux[1]>> \o wires_res
        na == Len(wires_a)
        nb == Len(wires_b)
    IN  <<QFT(new_wires_res)>>
        \o Flatten([i \in 1 .. na |-> Flatten([j \in 1 .. nb |->
               ctrl(add_in_k_N((2 ^ ((na - i) + (nb - j))) % N, N,
                               new_wires_res, <<wires_aux[2]>>, FALSE),
                    {wires_a[i]})])])
        \o <<IQFT(new_wires_res)>>

mult_out_N(N, wires_a, wires_b, wires_res, wires_aux) ==
    LET new_wires_res == <<wires_aux[1]>> \o wires_res
        na == Len(wires_a)
        nb == Len(wires_b)
    IN  <<QFT(new_wires_res)>>
        \o Flatten([i \in 1 .. na |-> Flatten([j \in 1 .. nb |->
               ctrl(add_in_k_N((2 ^ ((na - i) + (nb - j))) % N, N,
                               new_wires_res, <<wires_aux[2]>>, FALSE),
                    {wires_a[i], wires_b[j]})])])
        \o <<IQFT(new_wires_res)>>

Exp_a_N(a, N, wires_x, wires_res, wires_support, wires_aux) ==
    LET n == Len(wires_x)
    IN  <<PauliX(wires_res[Len(wires_res)])>>
        \o Flatten([i \in 1 .. n |->
               ctrl(mult_in_k_N(a ^ (2 ^ (n - i)), N, wires_res, wires_support,
                                wires_aux),
                    {wires_x[i]})])

(***************************************************************************)
(* Execution of one gate.                                                  *)
(***************************************************************************)

PhaseMod(ws) == 2 ^ (Len(ws) + 1)

\* Phases of QFT|v> on the wires ws.
FourierPhases(v, ws) ==
    [r \in 1 .. Len(ws) |-> (v * 2 ^ (Len(ws) + 1 - r)) % PhaseMod(ws)]

\* The basis value whose Fourier state has the phases p, or -1 if p is not
\* the Fourier transform of a basis state.
FourierValue(p, ws) ==
    LET v == p[Len(ws)] \div 2
    IN  IF p = FourierPhases(v, ws) THEN v ELSE -1

InFourier(w) == w \in Range(fb)

Rank(w) == CHOOSE r \in 1 .. Len(fb) : fb[r] = w

Gate == tape[pc]

Running == pc >= 1 /\ pc <= Len(tape) /\ ok

Done == pc > Len(tape)

\* The controls of the gate are basis wires.
CtrlReadable(gt) == \A w \in gt.c : ~InFourier(w)

Active(gt) == \A w \in gt.c : bits[w] = 1

\* A gate whose controls are not all 1 acts as the identity.
Skip == /\ pc' = pc + 1
        /\ UNCHANGED <<op, args, tape, bits, fb, ph, ok>>

\* The state left the set of states this model represents.
Fail == /\ ok' = FALSE
        /\ pc' = pc + 1
        /\ UNCHANGED <<op, args, tape, bits, fb, ph>>

StepQFT ==
    /\ Running /\ Gate.g = "QFT"
    /\ IF ~CtrlReadable(Gate) THEN Fail
       ELSE IF ~Active(Gate) THEN Skip
       ELSE IF fb # <<>> THEN Fail
       ELSE /\ fb' = Gate.ws
            /\ ph' = FourierPhases(binary_to_integer(Gate.ws), Gate.ws)
            /\ pc' = pc + 1
            /\ UNCHANGED <<op, args, tape, bits, ok>>

StepIQFT ==
    /\ Running /\ Gate.g = "IQFT"
    /\ IF ~CtrlReadable(Gate) THEN Fail
       ELSE IF ~Active(Gate) THEN Skip
       ELSE IF fb # Gate.ws \/ FourierValue(ph, fb) < 0 THEN Fail
       ELSE /\ bits' = BasisEmbedding(bits, FourierValue(ph, fb), fb)
            /\ fb' = <<>>
            /\ ph' = <<>>
            /\ pc' = pc + 1
            /\ UNCHANGED <<op, args, tape, ok>>

StepRZ ==
    /\ Running /\ Gate.g = "RZ"
    /\ IF ~CtrlReadable(Gate) THEN Fail
       ELSE IF ~Active(Gate) \/ ~InFourier(Gate.ws[1]) THEN Skip
       ELSE IF Gate.j > Len(fb) THEN Fail
       ELSE /\ ph' = [ph EXCEPT ![Rank(Gate.ws[1])] =
                        (@ + Gate.k * 2 ^ (Len(fb) - Gate.j)) % PhaseMod(fb)]
            /\ pc' = pc + 1
            /\ UNCHANGED <<op, args, tape, bits, fb, ok>>

StepCNOT ==
    /\ Running /\ Gate.g = "CNOT"
    /\ IF ~CtrlReadable(Gate) THEN Fail
       ELSE IF ~Active(Gate) THEN Skip
       ELSE IF InFourier(Gate.ws[1]) \/ InFourier(Gate.ws[2]) THEN Fail
       ELSE /\ bits' = [bits EXCEPT ![Gate.ws[2]] = (@ + bits[Gate.ws[1]]) % 2]
            /\ pc' = pc + 1
            /\ UNCHANGED <<op, args, tape, fb, ph, ok>>

StepPauliX ==
    /\ Running /\ Gate.g = "X"
    /\ IF ~CtrlReadable(Gate) THEN Fail
       ELSE IF ~Active(Gate) THEN Skip
       ELSE IF InFourier(Gate.ws[1]) THEN Fail
       ELSE /\ bits' = [bits EXCEPT ![Gate.ws[1]] = 1 - @]
            /\ pc' = pc + 1
            /\ UNCHANGED <<op, args, tape, fb, ph, ok>>

StepSWAP ==
    /\ Running /\ Gate.g = "SWAP"
    /\ IF ~CtrlReadable(Gate) THEN Fail
       ELSE IF ~Active(Gate) THEN Skip
       ELSE IF InFourier(Gate.ws[1]) \/ InFourier(Gate.ws[2]) THEN Fail
       ELSE /\ bits' = [bits EXCEPT ![Gate.ws[1]] = bits[Gate.ws[2]],
                                    ![Gate.ws[2]] = bits[Gate.ws[1]]]
            /\ pc' = pc + 1
            /\ UNCHANGED <<op, args, tape, fb, ph, ok>>

(***************************************************************************)
(* The notebook's circuits: embed the inputs, build the operator.          *)
(***************************************************************************)

NoArgs == [N |-> 0, k |-> 0, a |-> 0, b |-> 0, x |-> 0, anc |-> 0, res |-> 0]

Zero == [w \in Wires |-> 0]

Idle == op = "idle"

\* wires_a = [wires_aux1] + list(range(1, 4)), wires_aux2 = [4]
AddK_wires_a == <<0>> \o WireRange(1, nBits + 1)

AddK_wires_aux == <<nBits + 1>>

\* anc is the value of the overflow wire on entry (0 in the notebook).
circuit_add_in_k_N ==
    \E N \in Moduli : \E a \in 0 .. (N - 1) : \E k \in 0 .. (N - 1) :
    \E anc \in {0, 1} :
        /\ Idle
        /\ op' = "add_in_k_N"
        /\ args' = [NoArgs EXCEPT !.N = N, !.a = a, !.k = k, !.anc = anc]
        /\ bits' = BasisEmbedding(BasisEmbedding(Zero, a, AddK_wires_a),
                                  anc, AddK_wires_aux)
        /\ tape' = add_in_k_N(k, N, AddK_wires_a, AddK_wires_aux, TRUE)
        /\ pc' = 1
        /\ UNCHANGED <<fb, ph, ok>>

\* Registers of the other examples: list(range(0, 3)), list(range(3, 6)),
\* list(range(6, 9)), and the two auxiliary wires that follow them.
Reg0 == WireRange(0, nBits)

Reg1 == WireRange(nBits, 2 * nBits)

Reg2 == WireRange(2 * nBits, 3 * nBits)

\* wires_aux = [6, 7] of the two-register examples.
Aux2 == <<2 * nBits, 2 * nBits + 1>>

\* wires_aux = [9, 10] of the three-register examples.
Aux3 == <<3 * nBits, 3 * nBits + 1>>

Embed2(a, b) == BasisEmbedding(BasisEmbedding(Zero, a, Reg0), b, Reg1)

circuit_add_out_k_N ==
    \E N \in Moduli : \E a \in 0 .. (N - 1) : \E k \in 0 .. (N - 1) :
        /\ Idle
        /\ op' = "add_out_k_N"
        /\ args' = [NoArgs EXCEPT !.N = N, !.a = a, !.k = k]
        /\ bits' = BasisEmbedding(Zero, a, Reg0)
        /\ tape' = add_out_k_N(k, N, Reg0, Reg1, Aux2)
        /\ pc' = 1
        /\ UNCHANGED <<fb, ph, ok>>

circuit_add_in_N ==
    \E N \in Moduli : \E a \in 0 .. (N - 1) : \E b \in 0 .. (N - 1) :
        /\ Idle
        /\ op' = "add_in_N"
        /\ args' = [NoArgs EXCEPT !.N = N, !.a = a, !.b = b]
        /\ bits' = Embed2(a, b)
        /\ tape' = add_in_N(N, Reg0, Reg1, <<Aux2[1]>>, <<Aux2[2]>>)
        /\ pc' = 1
        /\ UNCHANGED <<fb, ph, ok>>

circuit_add_out_N ==
    \E N \in Moduli : \E a \in 0 .. (N - 1) : \E b \in 0 .. (N - 1) :
        /\ Idle
        /\ op' = "add_out_N"
        /\ args' = [NoArgs EXCEPT !.N = N, !.a = a, !.b = b]
        /\ bits' = Embed2(a, b)
        /\ tape' = add_out_N(N, Reg0, Reg1, Reg2, <<Aux3[1]>>, <<Aux3[2]>>)
        /\ pc' = 1
        /\ UNCHANGED <<fb, ph, ok>>

circuit_mult_out_k_N ==
    \E N \in Moduli : \E a \in 0 .. (N - 1) : \E b \in 0 .. (N - 1) :
    \E k \in 0 .. (N - 1) :
        /\ Idle
        /\ op' = "mult_out_k_N"
        /\ args' = [NoArgs EXCEPT !.N = N, !.a = a, !.b = b, !.k = k]
        /\ bits' = Embed2(a, b)
        /\ tape' = mult_out_k_N(k, N, Reg0, Reg1, Aux2)
        /\ pc' = 1
        /\ UNCHANGED <<fb, ph, ok>>

circuit_mult_in_k_N ==
    \E N \in Moduli : \E a \in 0 .. (N - 1) : \E k \in 0 .. (N - 1) :
        /\ Idle
        /\ op' = "mult_in_k_N"
        /\ args' = [NoArgs EXCEPT !.N = N, !.a = a, !.k = k]
        /\ bits' = BasisEmbedding(Zero, a, Reg0)
        /\ tape' = mult_in_k_N(k, N, Reg0, Reg1, Aux2)
        /\ pc' = 1
        /\ UNCHANGED <<fb, ph, ok>>

circuit_mult_out_N ==
    \E N \in Moduli : \E a \in 0 .. (N - 1) : \E b \in 0 .. (N - 1) :
        /\ Idle
        /\ op' = "mult_out_N"
        /\ args' = [NoArgs EXCEPT !.N = N, !.a = a, !.b = b]
        /\ bits' = Embed2(a, b)
        /\ tape' = mult_out_N(N, Reg0, Reg1, Reg2, Aux3)
        /\ pc' = 1
        /\ UNCHANGED <<fb, ph, ok>>

\* res is the value of wires_res on entry: 0 in the notebook, where
\* Exp_a_N itself flips the last wire; 1 in the operator's formula.
circuit_exp_a_N ==
    \E N \in Moduli : \E a \in 0 .. (N - 1) : \E x \in 0 .. (2 ^ nBits - 1) :
    \E res \in {0, 1} :
        /\ Idle
        /\ op' = "Exp_a_N"
        /\ args' = [NoArgs EXCEPT !.N = N, !.a = a, !.x = x, !.res = res]
        /\ bits' = Embed2(x, res)
        /\ tape' = Exp_a_N(a, N, Reg0, Reg1, Reg2, Aux3)
        /\ pc' = 1
        /\ UNCHANGED <<fb, ph, ok>>

\* The inverse of k modulo N, for k coprime to N.
ModInverse(k, N) == CHOOSE j \in 0 .. (N - 1) : (j * k) % N = 1 % N

\* Mult_in(k, N) followed by Mult_in(k^-1, N) on the same wires.
circuit_mult_in_round_trip ==
    \E N \in Moduli : \E a \in 0 .. (N - 1) :
    \E k \in {j \in 0 .. (N - 1) : GCD(j, N) = 1} :
        /\ Idle
        /\ op' = "round_trip"
        /\ args' = [NoArgs EXCEPT !.N = N, !.a = a, !.k = k]
        /\ bits' = BasisEmbedding(Zero, a, Reg0)
        /\ tape' = mult_in_k_N(k, N, Reg0, Reg1, Aux2)
                   \o mult_in_k_N(ModInverse(k, N), N, Reg0, Reg1, Aux2)
        /\ pc' = 1
        /\ UNCHANGED <<fb, ph, ok>>

\* Position of the first gate of step 3 in the gates of mult_in_k_N: the two
\* mult_out_k_N have the same length and the swaps lie between them.
Step3Start(circ) == (Len(circ) - nBits) \div 2 + nBits + 1

\* The gates of step 3 of mult_in_k_N.
Step3Of(circ) == SubSeq(circ, Step3Start(circ), Len(circ))

\* The constants mult_in_k_N accepts.
Accepted(N) == {k \in 0 .. (N - 1) : (pow(k, N - 2, N) * k) % N = 1}

\* Step 3 of mult_in_k_N, as emitted, on regA = x, support = y.
circuit_mult_in_step3 ==
    \E N \in Moduli : \E k \in Accepted(N) :
    \E x \in 0 .. (N - 1) : \E y \in 0 .. (N - 1) :
        /\ Idle
        /\ op' = "step3_emitted"
        /\ args' = [NoArgs EXCEPT !.N = N, !.k = k, !.a = x, !.b = y]
        /\ bits' = Embed2(x, y)
        /\ tape' = Step3Of(mult_in_k_N(k, N, Reg0, Reg1, Aux2))
        /\ pc' = 1
        /\ UNCHANGED <<fb, ph, ok>>

\* Step 3 as the notebook's derivation writes it, Mult_out(k^-1, N) dagger,
\* on regA = x, support = y.
circuit_mult_out_inverse ==
    \E N \in Moduli : \E k \in Accepted(N) :
    \E x \in 0 .. (N - 1) : \E y \in 0 .. (N - 1) :
        /\ Idle
        /\ op' = "step3_documented"
        /\ args' = [NoArgs EXCEPT !.N = N, !.k = k, !.a = x, !.b = y]
        /\ bits' = Embed2(x, y)
        /\ tape' = adjoint(mult_out_k_N(pow(k, N - 2, N), N, Reg0, Reg1, Aux2))
        /\ pc' = 1
        /\ UNCHANGED <<fb, ph, ok>>

Init ==
    /\ op = "idle"
    /\ args = NoArgs
    /\ tape = <<>>
    /\ pc = 0
    /\ bits = Zero
    /\ fb = <<>>
    /\ ph = <<>>
    /\ ok = TRUE

\* The adders.
Next ==
    \/ circuit_add_in_k_N
    \/ circuit_add_out_k_N
    \/ circuit_add_in_N
    \/ circuit_add_out_N
    \/ StepQFT
    \/ StepIQFT
    \/ StepRZ
    \/ StepCNOT
    \/ StepPauliX

Spec == Init /\ [][Next]_vars

\* The multipliers.
NextMult ==
    \/ circuit_mult_out_k_N
    \/ circuit_mult_in_k_N
    \/ circuit_mult_out_N
    \/ circuit_mult_in_round_trip
    \/ StepQFT
    \/ StepIQFT
    \/ StepRZ
    \/ StepCNOT
    \/ StepPauliX
    \/ StepSWAP

SpecMult == Init /\ [][NextMult]_vars

\* The exponentiator.
NextExp ==
    \/ circuit_exp_a_N
    \/ StepQFT
    \/ StepIQFT
    \/ StepRZ
    \/ StepCNOT
    \/ StepPauliX
    \/ StepSWAP

SpecExp == Init /\ [][NextExp]_vars

\* Step 3 of the in-place multiplier, emitted and documented.
NextStep3 ==
    \/ circuit_mult_in_step3
    \/ circuit_mult_out_inverse
    \/ StepQFT
    \/ StepIQFT
    \/ StepRZ
    \/ StepCNOT
    \/ StepPauliX

SpecStep3 == Init /\ [][NextStep3]_vars

\* The operators built from a loop of controlled add_in_k_N.
NextSerial ==
    \/ circuit_add_in_N
    \/ circuit_mult_out_k_N
    \/ circuit_mult_out_N
    \/ StepQFT
    \/ StepIQFT
    \/ StepRZ
    \/ StepCNOT
    \/ StepPauliX

SpecSerial == Init /\ [][NextSerial]_vars

(***************************************************************************)
(* Properties.                                                             *)
(***************************************************************************)

Finished(name) == op = name /\ Done

AuxZero(aux) == \A i \in 1 .. Len(aux) : bits[aux[i]] = 0

\* C1: add_in_k_N on a register holding a < N (N <= 2^(width-1)) with the
\* overflow wire at 0 ends with the register holding (a+k) mod N and the
\* overflow wire at 0.
C1_AddConstMod ==
    (op = "add_in_k_N" /\ args.anc = 0) =>
        /\ ok
        /\ Done =>
              /\ binary_to_integer(AddK_wires_a) = (args.a + args.k) % args.N
              /\ AuxZero(AddK_wires_aux)

\* The worked example 4 + 3 mod 5 has run.
C1_Witness ==
    /\ Finished("add_in_k_N") /\ args.anc = 0
    /\ args.N = 5 /\ args.a = 4 /\ args.k = 3
    /\ binary_to_integer(AddK_wires_a) = 2

\* C2: add_in_N on regA = a, regB = b (a, b < N) and both ancillas 0 ends with
\* regA = a, regB = (a+b) mod N and both ancillas 0.
C2_AddRegMod ==
    (op = "add_in_N") =>
        /\ ok
        /\ Done =>
              /\ binary_to_integer(Reg0) = args.a
              /\ binary_to_integer(Reg1) = (args.a + args.b) % args.N
              /\ AuxZero(Aux2)

\* An addition that wraps around N has run.
C2_Witness ==
    /\ Finished("add_in_N")
    /\ args.N = 5 /\ args.a = 4 /\ args.b = 3
    /\ binary_to_integer(Reg1) = 2

\* C3: mult_out_k_N on regA = a, regB = b (a, b, k < N) and both ancillas 0
\* ends with regA = a, regB = (b + k*a) mod N and both ancillas 0.
C3_MultOutConst ==
    (op = "mult_out_k_N") =>
        /\ ok
        /\ Done =>
              /\ binary_to_integer(Reg0) = args.a
              /\ binary_to_integer(Reg1) = (args.b + args.k * args.a) % args.N
              /\ AuxZero(Aux2)

\* The worked example 2 * 4 + 3 mod 6 = 5 has run.
C3_Witness ==
    /\ Finished("mult_out_k_N")
    /\ args.N = 6 /\ args.a = 2 /\ args.k = 4 /\ args.b = 3
    /\ binary_to_integer(Reg1) = 5

\* C4: mult_in_k_N with gcd(k, N) = 1, N prime or composite, on regA = a and
\* support and ancillas 0 ends with regA = (k*a) mod N and support and
\* ancillas 0.
C4_MultInConst ==
    (Finished("mult_in_k_N") /\ GCD(args.k, args.N) = 1) =>
        /\ ok
        /\ binary_to_integer(Reg0) = (args.k * args.a) % args.N
        /\ binary_to_integer(Reg1) = 0
        /\ AuxZero(Aux2)

\* C5: mult_out_N on regA = a, regB = b, regRes = 0 and both ancillas 0 ends
\* with regA = a, regB = b, regRes = (a*b) mod N and both ancillas 0.
C5_MultOutReg ==
    (op = "mult_out_N") =>
        /\ ok
        /\ Done =>
              /\ binary_to_integer(Reg0) = args.a
              /\ binary_to_integer(Reg1) = args.b
              /\ binary_to_integer(Reg2) = (args.a * args.b) % args.N
              /\ AuxZero(Aux3)

\* The worked example 3 * 5 mod 7 = 1 has run.
C5_Witness ==
    /\ Finished("mult_out_N")
    /\ args.N = 7 /\ args.a = 3 /\ args.b = 5
    /\ binary_to_integer(Reg2) = 1

\* C6: Exp_a_N on regX = x, regRes = 1, support = 0 and ancillas 0 ends with
\* regX = x, regRes = a^x mod N and support = 0, for every a < N.
C6_ModPow ==
    (Finished("Exp_a_N") /\ args.res = 1) =>
        /\ ok
        /\ binary_to_integer(Reg0) = args.x
        /\ binary_to_integer(Reg1) = pow(args.a, args.x, args.N)
        /\ binary_to_integer(Reg2) = 0

\* C7: add_out_N on regA = a, regB = b, regRes = 0 and both ancillas 0 first
\* copies regB into regRes with one CNOT per bit, then adds regA into regRes:
\* it ends with regA = a, regB = b, regRes = (a+b) mod N and both ancillas 0.
C7_AddOut ==
    (op = "add_out_N") =>
        /\ ok
        /\ (pc = nBits + 1) =>
              /\ \A i \in 1 .. nBits : tape[i] = CNOT(Reg1[i], Reg2[i])
              /\ binary_to_integer(Reg2) = args.b
              /\ binary_to_integer(Reg0) = args.a
        /\ Done =>
              /\ binary_to_integer(Reg0) = args.a
              /\ binary_to_integer(Reg1) = args.b
              /\ binary_to_integer(Reg2) = (args.a + args.b) % args.N
              /\ AuxZero(Aux3)

\* An out-of-place addition that wraps around N has run.
C7_Witness ==
    /\ Finished("add_out_N")
    /\ args.N = 5 /\ args.a = 4 /\ args.b = 3
    /\ binary_to_integer(Reg2) = 2
    /\ binary_to_integer(Reg1) = 3

\* C8: mult_in_k_N(k, N) followed by mult_in_k_N(k^-1 mod N, N), gcd(k, N) = 1,
\* on regA = a and support and ancillas 0 ends with regA = a and support and
\* ancillas 0.
C8_RoundTrip ==
    (op = "round_trip") =>
        /\ ok
        /\ Done =>
              /\ binary_to_integer(Reg0) = args.a
              /\ binary_to_integer(Reg1) = 0
              /\ AuxZero(Aux2)

\* A round trip through 3 * 3 mod 7 = 2 and back by 5 = 3^-1 has run.
C8_Witness ==
    /\ Finished("round_trip")
    /\ args.N = 7 /\ args.a = 3 /\ args.k = 3
    /\ tape # <<>>
    /\ binary_to_integer(Reg0) = 3

\* C9: add_in_k_N leaves the overflow wire with the value it had on entry,
\* whether that value is 0 or 1.
C9_AncillaRestored ==
    Finished("add_in_k_N") => bits[AddK_wires_aux[1]] = args.anc

\* C9 (amended): add_in_k_N leaves the overflow wire at 0 whether it entered
\* at 0 or at 1, so the wire has its entry value at the end exactly when it
\* entered at 0.
C9_AncillaCleared ==
    (op = "add_in_k_N") =>
        /\ ok
        /\ Done =>
              /\ bits[AddK_wires_aux[1]] = 0
              /\ (bits[AddK_wires_aux[1]] = args.anc) <=> (args.anc = 0)

\* add_in_k_N has run from an overflow wire at 1.
C9_Witness ==
    /\ Finished("add_in_k_N") /\ args.anc = 1
    /\ args.N = 5 /\ args.a = 4 /\ args.k = 3
    /\ bits[AddK_wires_aux[1]] = 0

\* C10: mult_in_k_N with a constant that has no inverse modulo N (k = 0
\* included) emits no gate, and regA, support and ancillas stay as they were.
C10_NoInverseNoCircuit ==
    (op = "mult_in_k_N" /\ GCD(args.k, args.N) # 1) =>
        /\ tape = <<>>
        /\ Done
        /\ bits = BasisEmbedding(Zero, args.a, Reg0)

\* mult_in_k_N was called with k = 2, N = 4 on a = 3.
C10_Witness ==
    /\ op = "mult_in_k_N"
    /\ args.N = 4 /\ args.k = 2 /\ args.a = 3
    /\ binary_to_integer(Reg0) = 3

\* C11: a call of a builder emits either the complete gate sequence of its
\* operator or no gate at all; when mult_in_k_N fails inside Exp_a_N, Exp_a_N
\* emits no gate, never a circuit with the failing multiplication left out.
C11_AllOrNothing ==
    (op = "Exp_a_N") =>
        \/ tape = <<>>
        \/ \A i \in 1 .. nBits :
              mult_in_k_N(args.a ^ (2 ^ (nBits - i)), args.N, Reg1, Reg2, Aux3)
                  # <<>>

\* C13: in add_in_N the support wire prefixed to regB is the least
\* significant wire of the extended register and regB's wires keep the
\* higher positions: the extended register holds 2*b when the support wire
\* is 0.
C13_SupportLowOrder ==
    (op = "add_in_N" /\ pc = 2) =>
        /\ fb[Len(fb)] = Aux2[1]
        /\ SubSeq(fb, 1, nBits) = Reg1
        /\ FourierValue(ph, fb) = 2 * args.b

\* C13 (amended): in add_in_N the support wire prefixed to regB is the most
\* significant wire of the extended register, the one add_in_k_N copies into
\* the overflow wire, and regB's wires keep the lower positions: the
\* extended register holds b when the support wire is 0.
C13_SupportHighOrder ==
    (op = "add_in_N") =>
        /\ \A i \in 1 .. Len(tape) :
              tape[i].g = "CNOT" => tape[i].ws = <<Aux2[1], Aux2[2]>>
        /\ (pc = 2) =>
              /\ fb[1] = Aux2[1]
              /\ SubSeq(fb, 2, nBits + 1) = Reg1
              /\ FourierValue(ph, fb) = args.b

\* add_in_N has transformed the extended register of b = 3.
C13_Witness ==
    /\ op = "add_in_N" /\ pc = 2
    /\ args.N = 5 /\ args.a = 4 /\ args.b = 3
    /\ fb = <<Aux2[1]>> \o Reg1
    /\ FourierValue(ph, fb) = 3

\* Positions in the gates of add_in_k_N on w wires, started in the standard
\* basis: the device is at pc when the gates before pc have run.
AtFirstRead(w) == pc = 2 * w + 3

AfterFirstCopy(w) == pc = 2 * w + 4

AfterReAdd(w) == pc = 3 * w + 5

AtSecondRead(w) == pc = 4 * w + 6

AfterSecondCopy(w) == pc = 4 * w + 8

\* C17: in add_in_k_N on w wires with N <= 2^(w-1), a, k < N and the overflow
\* wire at 0, the integers a+k-N and ((a+k) mod N)-k lie in
\* [-2^(w-1), 2^(w-1)); the register holds them modulo 2^w when its first
\* wire is read, and that wire is 1 exactly when they are negative.  So the
\* overflow wire is 1 after the first copy exactly when a+k < N, the register
\* holds (a+k) mod N after the controlled re-addition of N, and the second
\* copy puts the overflow wire back to 0.
C17_SignDetection ==
    (op = "add_in_k_N" /\ args.anc = 0) =>
        LET w == Len(AddK_wires_a)
            d1 == args.a + args.k - args.N
            d2 == ((args.a + args.k) % args.N) - args.k
            top == bits[AddK_wires_a[1]]
            overflow == bits[AddK_wires_aux[1]]
        IN  /\ args.N <= 2 ^ (w - 1)
            /\ 0 - 2 ^ (w - 1) <= d1 /\ d1 < 2 ^ (w - 1)
            /\ 0 - 2 ^ (w - 1) <= d2 /\ d2 < 2 ^ (w - 1)
            /\ AtFirstRead(w) =>
                  /\ fb = <<>>
                  /\ binary_to_integer(AddK_wires_a) = d1 % 2 ^ w
                  /\ (top = 1) <=> (d1 < 0)
            /\ AfterFirstCopy(w) =>
                  (overflow = 1) <=> (args.a + args.k < args.N)
            /\ AfterReAdd(w) =>
                  FourierValue(ph, fb) = (args.a + args.k) % args.N
            /\ AtSecondRead(w) =>
                  /\ fb = <<>>
                  /\ binary_to_integer(AddK_wires_a) = d2 % 2 ^ w
                  /\ (top = 1) <=> (d2 < 0)
            /\ AfterSecondCopy(w) => overflow = 0

\* The first copy has set the overflow wire for 1 + 2 < 5.
C17_Witness ==
    /\ op = "add_in_k_N" /\ args.anc = 0
    /\ args.N = 5 /\ args.a = 1 /\ args.k = 2
    /\ AfterFirstCopy(Len(AddK_wires_a))
    /\ bits[AddK_wires_a[1]] = 1
    /\ bits[AddK_wires_aux[1]] = 1

IsPrime(n) == n >= 2 /\ \A d \in 2 .. (n - 1) : n % d # 0

\* C14: step 3 of mult_in_k_N (N prime, 1 <= k < N), started after the swap
\* on (k*a mod N, a), is the adjoint of mult_out_k_N built with the constant
\* (N - k^-1) mod N, and it brings the support register back to 0.
C14_AdjointStep3 ==
    (op = "mult_in_k_N" /\ IsPrime(args.N) /\ args.k >= 1) =>
        LET inv_k == pow(args.k, args.N - 2, args.N)
        IN  /\ Step3Of(tape) =
                  adjoint(mult_out_k_N((args.N - inv_k) % args.N, args.N,
                                       Reg0, Reg1, Aux2))
            /\ (pc = Step3Start(tape)) =>
                  /\ binary_to_integer(Reg0) = (args.k * args.a) % args.N
                  /\ binary_to_integer(Reg1) = args.a
            /\ Done => binary_to_integer(Reg1) = 0

\* C14 (amended): step 3 of mult_in_k_N (N prime, 1 <= k < N), started after
\* the swap on (k*a mod N, a), is mult_out_k_N itself, not its adjoint, built
\* with the constant N - k^-1, and it brings the support register back to 0.
C14_ForwardStep3 ==
    (op = "mult_in_k_N" /\ IsPrime(args.N) /\ args.k >= 1) =>
        LET inv_k == pow(args.k, args.N - 2, args.N)
        IN  /\ ok
            /\ Step3Of(tape) =
                  mult_out_k_N(args.N - inv_k, args.N, Reg0, Reg1, Aux2)
            /\ (pc = Step3Start(tape)) =>
                  /\ binary_to_integer(Reg0) = (args.k * args.a) % args.N
                  /\ binary_to_integer(Reg1) = args.a
            /\ Done =>
                  /\ binary_to_integer(Reg0) = (args.k * args.a) % args.N
                  /\ binary_to_integer(Reg1) = 0

\* Step 3 has brought the support register from 3 back to 0 for 3 * 3 mod 7.
C14_Witness ==
    /\ Finished("mult_in_k_N")
    /\ args.N = 7 /\ args.k = 3 /\ args.a = 3
    /\ tape # <<>>
    /\ binary_to_integer(Reg0) = 2
    /\ binary_to_integer(Reg1) = 0

\* C15: from every state regA = x, support = y (x, y < N) with the ancillas
\* at 0, step 3 as mult_in_k_N emits it and the documented step, the adjoint
\* of mult_out_k_N(k^-1, N), end in the same state: regA = x, support =
\* (y - k^-1 * x) mod N, ancillas 0; that is support = 0 on the states
\* x = k*y mod N reached after the swap.
C15_Step3Equivalent ==
    (op \in {"step3_emitted", "step3_documented"}) =>
        LET inv_k == pow(args.k, args.N - 2, args.N)
        IN  /\ ok
            /\ tape # <<>>
            /\ Done =>
                  /\ binary_to_integer(Reg0) = args.a
                  /\ binary_to_integer(Reg1) =
                        (args.b - inv_k * args.a) % args.N
                  /\ AuxZero(Aux2)
                  /\ (args.a = (args.k * args.b) % args.N) =>
                        binary_to_integer(Reg1) = 0

\* The documented step has uncomputed support = 3 from regA = 3 * 3 mod 7.
C15_Witness ==
    /\ Finished("step3_documented")
    /\ args.N = 7 /\ args.k = 3 /\ args.a = 2 /\ args.b = 3
    /\ tape # <<>>
    /\ binary_to_integer(Reg1) = 0

\* Number of gates of one controlled add_in_k_N of the loops.
BlockLen == Len(add_in_k_N(0, 2, <<Aux2[1]>> \o Reg1, <<Aux2[2]>>, FALSE))

\* The device is between two passes of the loop (or before the first, or
\* after the last).
AtLoopBoundary == pc >= 2 /\ pc <= Len(tape) /\ (pc - 2) % BlockLen = 0

\* C16: in add_in_N, mult_out_k_N and mult_out_N, started with the target
\* register < N and the ancillas at 0, after every controlled add_in_k_N of
\* the loop the overflow wire is 0, the prefixed top wire is 0, the target
\* register holds a value < N and the control registers are unchanged.
C16_LoopInvariant ==
    (op \in {"add_in_N", "mult_out_k_N", "mult_out_N"}) =>
        /\ ok
        /\ AtLoopBoundary =>
              LET overflow == IF op = "mult_out_N" THEN Aux3[2] ELSE Aux2[2]
                  v == FourierValue(ph, fb)
              IN  /\ fb = tape[1].ws
                  /\ bits[overflow] = 0
                  /\ v >= 0 /\ v < 2 ^ (Len(fb) - 1)
                  /\ v < args.N
                  /\ binary_to_integer(Reg0) = args.a
                  /\ (op = "mult_out_N") => binary_to_integer(Reg1) = args.b

\* mult_out_N is between two passes of its loop, with a pass that added
\* behind it.
C16_Witness ==
    /\ op = "mult_out_N" /\ AtLoopBoundary
    /\ pc = 2 + 5 * BlockLen
    /\ args.N = 7 /\ args.a = 3 /\ args.b = 5
    /\ FourierValue(ph, fb) # 0

====
